---- MODULE Spec2Model ----
(***************************************************************************)
(* The sales dashboard of sales_dashboard_realtime.py as a state machine.  *)
(* One script run (top to bottom) is one step: the sidebar's upload,       *)
(* reset and append branches update st.session_state.df, then the working  *)
(* copy is filtered, aggregated and exported.                              *)
(*                                                                         *)
(* Numbers are fixed-point with one decimal digit ("tenths"): 27 is 2.7,   *)
(* 100 is 10.0.  Dates are days of January 2025.  CSV cells are strings;   *)
(* to_csv and read_csv are modelled by the spelling they write and the     *)
(* type inference they perform.                                            *)
(***************************************************************************)
EXTENDS Integers, Sequences, FiniteSets, TLC

VARIABLES
    df,             \* st.session_state.df
    uploaded_file,  \* the file held by the st.file_uploader widget: <<>> or <<file>>
    clicked,        \* the button clicked in the last script run: "none", "reset" or "add"
    start_date, end_date, regions, products   \* the values of the filter widgets

vars == <<df, uploaded_file, clicked, start_date, end_date, regions, products>>

---------------------------------------------------------------------------
(* Bounds of the model *)

MaxDay == 2          \* dates range over 2025-01-01 .. 2025-01-MaxDay
SampleN == 2         \* rows of the sample dataset (n=40 in the program)
MaxUploadRows == 2   \* data rows of an uploaded file
MaxRows == 3         \* appends stop when the session dataset has this many rows
MaxNumeral == 200    \* numerals up to 20.0 are recognised as numbers

Dates == 1..MaxDay

---------------------------------------------------------------------------
(* Cell values of a DataFrame *)

DateV(d) == [k |-> "date", n |-> d, s |-> ""]
NumV(t) == [k |-> "num", n |-> t, s |-> ""]
StrV(s) == [k |-> "str", n |-> 0, s |-> s]
NaN == [k |-> "nan", n |-> 0, s |-> ""]

Range(f) == {f[i] : i \in DOMAIN f}

Abs(t) == IF t < 0 THEN -t ELSE t

\* astype(int): truncation toward zero
TruncInt(t) == IF t >= 0 THEN (t \div 10) * 10 ELSE -(((-t) \div 10) * 10)

---------------------------------------------------------------------------
(* Spelling of values in CSV text, and its inverse *)

FormatInt(t) == ToString(t \div 10)

FormatFloat(t) ==
    (IF t < 0 THEN "-" ELSE "") \o ToString(Abs(t) \div 10) \o "." \o ToString(Abs(t) % 10)

FormatDate(d) == (IF d < 10 THEN "2025-01-0" ELSE "2025-01-") \o ToString(d)

\* the spellings of the number t that the CSV reader accepts: the float
\* spelling ("2.7", "10.0"), the integer spelling ("10", "-3"), and an integer
\* spelling with leading zeros ("007")
Spellings(t) ==
    {FormatFloat(t)} \cup
    (IF t % 10 = 0 THEN {FormatInt(t)} ELSE {}) \cup
    (IF t % 10 = 0 /\ t >= 0 /\ t < 100 THEN {"00" \o FormatInt(t)} ELSE {})

Numerals == UNION {Spellings(t) : t \in -MaxNumeral..MaxNumeral}

NumeralTable == [s \in Numerals |-> CHOOSE t \in -MaxNumeral..MaxNumeral : s \in Spellings(t)]

NumeralValue(text) == NumeralTable[text]

IntNumerals == {s \in Numerals : NumeralTable[s] % 10 = 0 /\ s # FormatFloat(NumeralTable[s])}

DateTexts == {FormatDate(d) : d \in Dates}

DateValue(text) == CHOOSE d \in Dates : text = FormatDate(d)

\* the missing-value spellings of read_csv that occur in this model
NaTexts == {"", "nan"}

---------------------------------------------------------------------------
(* DataFrames: ordered columns, a dtype per column, ordered rows *)

required == {"Date", "Product", "Region", "Units Sold", "Unit Price"}

StdCols == <<"Date", "Product", "Region", "Units Sold", "Unit Price", "Total Sales">>

StdDtype ==
    [c \in Range(StdCols) |->
        CASE c = "Units Sold" -> "int64"
          [] c \in {"Unit Price", "Total Sales"} -> "float64"
          [] OTHER -> "object"]

\* df["Units Sold"] * df["Unit Price"]
Times(units, price) == NumV((units.n \div 10) * price.n)

\* one generated row: line 75 (append) and line 28 (sample) set its Total Sales
NewRow(date, product, region, units, price) ==
    [c \in Range(StdCols) |->
        CASE c = "Date" -> DateV(date)
          [] c = "Product" -> StrV(product)
          [] c = "Region" -> StrV(region)
          [] c = "Units Sold" -> NumV(units * 10)
          [] c = "Unit Price" -> NumV(price)
          [] OTHER -> Times(NumV(units * 10), NumV(price))]

\* sample_data(n, seed=42): the seed fixes the rows.  The stream of the random
\* generator is not modelled; row i takes values of the generator's ranges
\* (lines 16-25) by its index.
sample_products == <<"Product A", "Product B", "Product C">>
sample_regions == <<"North", "South", "East", "West">>

SampleRow(i) ==
    NewRow(((i - 1) % MaxDay) + 1, sample_products[2 - ((i - 1) % 2)], sample_regions[1], 10 * i, 100)

sample_data(n) == [cols |-> StdCols, dtype |-> StdDtype, rows |-> [i \in 1..n |-> SampleRow(i)]]

---------------------------------------------------------------------------
(* Uploaded files: a header and rows of text cells, or bytes that cannot be read *)

Unreadable == [readable |-> FALSE, cols |-> <<>>, rows |-> <<>>]

TextRow(date, product, region, units, price) ==
    [Date |-> date, Product |-> product, Region |-> region, Units |-> units, Price |-> price]

GoodRows ==
    { TextRow("2025-01-01", "Product A", "North", "5", "10"),
      TextRow("2025-01-02", "007", "South", "-3", "-1.5") }

BadDateRow == TextRow("not-a-date", "Product A", "North", "5", "10")

ExtraRows ==
    { TextRow("2025-01-02", "Product B", "South", "2.7", "abc"),
      TextRow("2025-01-01", "Product A", "North", "abc", "15.0") }

PlainHeader == <<"Date", "Product", "Region", "Units Sold", "Unit Price">>
NoRegionHeader == <<"Date", "Product", "Units Sold", "Unit Price">>
ExtraHeader == <<"Product", "Date", "Region", "Notes", "Units Sold", "Unit Price", "Total Sales">>

\* the text of a row's cell under column c; an uploaded Total Sales or Notes
\* column holds text of the uploader's own
CellOf(r, c) ==
    CASE c = "Date" -> r.Date
      [] c = "Product" -> r.Product
      [] c = "Region" -> r.Region
      [] c = "Units Sold" -> r.Units
      [] c = "Unit Price" -> r.Price
      [] c = "Total Sales" -> "19.5"
      [] OTHER -> "x"

FilesOfLen(n, h, rowset) ==
    {[readable |-> TRUE, cols |-> h,
      rows |-> [i \in 1..n |-> [c \in Range(h) |-> CellOf(rs[i], c)]]] :
        rs \in [1..n -> rowset]}

\* the files the user has at hand
UploadFiles ==
    {Unreadable}
    \cup UNION {FilesOfLen(n, PlainHeader, GoodRows) : n \in 0..MaxUploadRows}
    \cup FilesOfLen(1, ExtraHeader, ExtraRows)
    \cup FilesOfLen(1, NoRegionHeader, {BadDateRow})
    \cup {f \in FilesOfLen(MaxUploadRows, PlainHeader, GoodRows \cup {BadDateRow}) :
            \A i \in 1..MaxUploadRows :
                IF i = MaxUploadRows THEN f.rows[i]["Date"] = BadDateRow.Date
                ELSE f.rows[i]["Product"] = "007"}

---------------------------------------------------------------------------
(* pd.read_csv and the upload branch, lines 43-58 *)

Column(file, c) == [i \in 1..Len(file.rows) |-> file.rows[i][c]]

\* the dtype read_csv infers for a column of text cells
InferDtype(cells) ==
    IF Len(cells) = 0 THEN "object"
    ELSE IF Range(cells) \subseteq IntNumerals THEN "int64"
    ELSE IF Range(cells) \subseteq (Numerals \cup NaTexts) THEN "float64"
    ELSE "object"

\* the value read_csv gives a cell of a column of that dtype
ReadCell(dt, text) ==
    IF text \in NaTexts THEN NaN
    ELSE IF dt = "object" THEN StrV(text)
    ELSE NumV(NumeralValue(text))

\* missing values are filled with -1 instead of 0
ToNumericFillMinusOne(v) ==
    CASE v.k = "num" -> v
      [] v.k = "str" /\ v.s \in Numerals -> NumV(NumeralValue(v.s))
      [] OTHER -> NumV(-10)

\* pd.to_numeric(..., errors="coerce") of one cell, then fillna(0)
ToNumeric(v) ==
    CASE v.k = "num" -> v
      [] v.k = "str" /\ v.s \in Numerals -> NumV(NumeralValue(v.s))
      [] OTHER -> NumV(0)

\* line 52: to_numeric, fillna(0), astype(int)
CoerceUnits(v) == NumV(TruncInt(ToNumeric(v).n))

\* line 53: to_numeric, fillna(0.0)
CoercePrice(v) == ToNumeric(v)

\* pd.to_datetime(...).dt.date raises on text that is no date
DateParses(text) == text \in DateTexts

ParseDate(text) == DateV(DateValue(text))

PriceDtype(dt) == IF dt = "int64" THEN "int64" ELSE "float64"

\* the columns of df_upload after line 54: Total Sales is added at the end when absent
ColsWithTotal(cols) ==
    IF "Total Sales" \in Range(cols) THEN cols ELSE Append(cols, "Total Sales")

\* a Total Sales column of the upload is kept instead of being recomputed
UploadedTotalKept(file, i, units, price) ==
    IF "Total Sales" \in Range(file.cols)
    THEN NumV(NumeralValue(file.rows[i]["Total Sales"]))
    ELSE Times(units, price)

\* line 54: Total Sales of row i of the upload
TotalOnUpload(file, i, units, price) == Times(units, price)

\* lines 51-54 on the frame read_csv returned
Sanitize(file) ==
    LET cols == ColsWithTotal(file.cols)
        dts == [c \in Range(file.cols) |-> InferDtype(Column(file, c))]
        dt(c) == dts[c]
        read(i, c) == ReadCell(dt(c), file.rows[i][c])
        units(i) == CoerceUnits(read(i, "Units Sold"))
        price(i) == CoercePrice(read(i, "Unit Price"))
    IN  [cols |-> cols,
         dtype |-> [c \in Range(cols) |->
                      CASE c = "Date" -> "object"
                        [] c = "Units Sold" -> "int64"
                        [] c \in {"Unit Price", "Total Sales"} -> PriceDtype(dt("Unit Price"))
                        [] OTHER -> dt(c)],
         rows |-> [i \in 1..Len(file.rows) |->
                     [c \in Range(cols) |->
                        CASE c = "Date" -> ParseDate(file.rows[i][c])
                          [] c = "Units Sold" -> units(i)
                          [] c = "Unit Price" -> price(i)
                          [] c = "Total Sales" -> TotalOnUpload(file, i, units(i), price(i))
                          [] OTHER -> read(i, c)]]]

\* to_numeric without errors="coerce": a non-numeric cell raises
IngestStatusNoCoerce(file) ==
    IF ~file.readable THEN "error"
    ELSE IF ~(required \subseteq Range(file.cols)) THEN "missing"
    ELSE IF \E i \in 1..Len(file.rows) :
               \/ ~DateParses(file.rows[i]["Date"])
               \/ file.rows[i]["Units Sold"] \notin Numerals
               \/ file.rows[i]["Unit Price"] \notin Numerals
         THEN "error"
    ELSE "ok"

\* how lines 44-58 end for a file: "ok", "missing" (line 48) or "error" (line 58)
IngestStatus(file) ==
    IF ~file.readable THEN "error"
    ELSE IF ~(required \subseteq Range(file.cols)) THEN "missing"
    ELSE IF \E i \in 1..Len(file.rows) : ~DateParses(file.rows[i]["Date"]) THEN "error"
    ELSE "ok"

\* How the upload branch ends in one script run.  The widget returns the held
\* file on every run, read from its start.
UploadStatus(held) == IF held = <<>> THEN "none" ELSE IngestStatus(held[1])

\* the session is overwritten before the columns are checked
UploadBranchStoresFirst(held, cur) ==
    IF UploadStatus(held) = "ok" THEN Sanitize(held[1])
    ELSE IF UploadStatus(held) = "missing"
    THEN [cols |-> held[1].cols, dtype |-> [c \in Range(held[1].cols) |-> "object"], rows |-> <<>>]
    ELSE cur

\* st.session_state.df after lines 43-58
UploadBranch(held, cur) ==
    IF UploadStatus(held) = "ok" THEN Sanitize(held[1]) ELSE cur

---------------------------------------------------------------------------
(* Reset and append, lines 60-82 *)

AppendProducts == {"Product B"}
AppendRegions == {"South"}
AppendUnits == {10}
AppendPrices == {100}

\* the dtype pd.concat gives a column of cur when a generated row is added
ConcatDtype(cur, c) ==
    LET old == cur.dtype[c]
        new == IF c \in Range(StdCols) THEN StdDtype[c] ELSE "float64"
    IN  IF Len(cur.rows) = 0 THEN (IF c \in Range(StdCols) THEN new ELSE old)
        ELSE IF old = new THEN old
        ELSE IF old = "object" \/ new = "object" THEN "object"
        ELSE "float64"

\* line 76: pd.concat([st.session_state.df, pd.DataFrame([new_row])], ignore_index=True)
Concat(cur, row) ==
    [cols |-> cur.cols,
     dtype |-> [c \in Range(cur.cols) |-> ConcatDtype(cur, c)],
     rows |-> Append(cur.rows,
                     [c \in Range(cur.cols) |-> IF c \in DOMAIN row THEN row[c] ELSE NaN])]

---------------------------------------------------------------------------
(* The working copy, lines 88-94 *)

WorkingCopy(cur) ==
    [cols |-> cur.cols,
     dtype |-> [c \in Range(cur.cols) |->
                  IF c = "Total Sales" THEN PriceDtype(cur.dtype["Unit Price"])
                  ELSE cur.dtype[c]],
     rows |-> [i \in 1..Len(cur.rows) |->
                 [c \in Range(cur.cols) |->
                    CASE c = "Units Sold" -> CoerceUnits(cur.rows[i][c])
                      [] c = "Unit Price" -> CoercePrice(cur.rows[i][c])
                      [] c = "Total Sales" ->
                           Times(CoerceUnits(cur.rows[i]["Units Sold"]),
                                 CoercePrice(cur.rows[i]["Unit Price"]))
                      [] OTHER -> cur.rows[i][c]]]]

---------------------------------------------------------------------------
(* Filter widgets and filter, lines 96-118 *)

Unique(d, c) == {d.rows[i][c] : i \in 1..Len(d.rows)}

\* line 98-101: min()/max() of an empty column is nan, which st.date_input rejects
DateInputFails(d) == Len(d.rows) = 0

\* lines 109-110: sorted() raises on a column that mixes strings with numbers or nan
SortedFails(d, c) == Cardinality({v.k : v \in Unique(d, c)}) > 1

RenderFails(d) == DateInputFails(d) \/ SortedFails(d, "Region") \/ SortedFails(d, "Product")

min_date(d) == CHOOSE x \in Dates : /\ DateV(x) \in Unique(d, "Date")
                                    /\ \A y \in Dates : DateV(y) \in Unique(d, "Date") => x <= y

max_date(d) == CHOOSE x \in Dates : /\ DateV(x) \in Unique(d, "Date")
                                    /\ \A y \in Dates : DateV(y) \in Unique(d, "Date") => y <= x

Keep(r, sd, ed, rg, pr) ==
    /\ r["Date"].n >= sd
    /\ r["Date"].n <= ed
    /\ r["Region"] \in rg
    /\ r["Product"] \in pr

\* lines 113-118
ApplyFilters(d, sd, ed, rg, pr) ==
    [cols |-> d.cols, dtype |-> d.dtype,
     rows |-> SelectSeq(d.rows, LAMBDA r : Keep(r, sd, ed, rg, pr))]

---------------------------------------------------------------------------
(* KPIs, lines 120-123 *)

RECURSIVE SumCol(_, _)
SumCol(rows, c) == IF Len(rows) = 0 THEN 0 ELSE rows[1][c].n + SumCol(Tail(rows), c)

\* a mean is kept as the fraction num/den
Mean(rows, c) == [num |-> SumCol(rows, c), den |-> Len(rows)]

Zero == [num |-> 0, den |-> 1]

\* the mean without the guard for an empty view
AvgPriceUnguarded(view) == Mean(view.rows, "Unit Price")

\* line 123
AvgPrice(view) == IF Len(view.rows) > 0 THEN Mean(view.rows, "Unit Price") ELSE Zero

---------------------------------------------------------------------------
(* Grouped sums, lines 132-152 *)

\* Python's order of the strings of this model
KeyOrder == <<"007", "East", "North", "Product A", "Product B", "Product C", "South", "West", "x">>

Rank(s) == CHOOSE i \in 1..Len(KeyOrder) : KeyOrder[i] = s

\* the order groupby(sort=True) puts group keys in
KeyLess(a, b) == IF a.k = "str" /\ b.k = "str" THEN Rank(a.s) < Rank(b.s) ELSE a.n < b.n

GroupTotal(rows, c, key) == SumCol(SelectSeq(rows, LAMBDA r : r[c] = key), "Total Sales")

\* groupby(c, as_index=False)["Total Sales"].sum(): one row per key, keys ascending
GroupBy(view, c) ==
    LET keys == Unique(view, c) \ {NaN}
        at(p) == CHOOSE x \in keys : Cardinality({y \in keys : KeyLess(y, x)}) = p - 1
    IN  [p \in 1..Cardinality(keys) |-> [key |-> at(p), total |-> GroupTotal(view.rows, c, at(p))]]

\* the sort left out
SortTotalMissing(g) == g

\* sort_values("Total Sales", ascending=False): equal totals keep their order
SortTotalDesc(g) ==
    LET pos(i) == 1 + Cardinality({j \in 1..Len(g) :
                        g[j].total > g[i].total \/ (g[j].total = g[i].total /\ j < i)})
    IN  [p \in 1..Len(g) |-> g[CHOOSE i \in 1..Len(g) : pos(i) = p]]

\* sort_values("Date")
SortDateAsc(g) ==
    LET pos(i) == 1 + Cardinality({j \in 1..Len(g) :
                        g[j].key.n < g[i].key.n \/ (g[j].key.n = g[i].key.n /\ j < i)})
    IN  [p \in 1..Len(g) |-> g[CHOOSE i \in 1..Len(g) : pos(i) = p]]

\* line 134
ProdSales(view) == IF Len(view.rows) = 0 THEN <<>> ELSE SortTotalDesc(GroupBy(view, "Product"))

\* line 142
RegSales(view) == IF Len(view.rows) = 0 THEN <<>> ELSE GroupBy(view, "Region")

\* line 150
TimeSeries(view) == IF Len(view.rows) = 0 THEN <<>> ELSE SortDateAsc(GroupBy(view, "Date"))

---------------------------------------------------------------------------
(* Export, lines 162-166 *)

\* the text to_csv writes for a value of a column of dtype dt
FormatValue(dt, v) ==
    CASE v.k = "nan" -> ""
      [] v.k = "date" -> FormatDate(v.n)
      [] v.k = "str" -> v.s
      [] OTHER -> IF dt = "float64" \/ (dt = "object" /\ v.n % 10 # 0)
                  THEN FormatFloat(v.n) ELSE FormatInt(v.n)

\* only the six standard columns are written
ExportStdColsOnly(view) ==
    [readable |-> TRUE, cols |-> StdCols,
     rows |-> [i \in 1..Len(view.rows) |->
                 [c \in Range(StdCols) |-> FormatValue(view.dtype[c], view.rows[i][c])]]]

\* line 163: df_.to_csv(index=False)
convert_df_to_csv(view) ==
    [readable |-> TRUE, cols |-> view.cols,
     rows |-> [i \in 1..Len(view.rows) |->
                 [c \in Range(view.cols) |-> FormatValue(view.dtype[c], view.rows[i][c])]]]

---------------------------------------------------------------------------
(* What one script run shows, lines 88-166, from the session and the widgets *)

NoFrame == [cols |-> <<>>, dtype |-> <<>>, rows |-> <<>>]

\* "error" when the script raised at line 101 or 109-110: nothing below was produced
render == IF RenderFails(WorkingCopy(df)) THEN "error" ELSE "ok"

filtered_df ==
    IF render = "error" THEN NoFrame
    ELSE ApplyFilters(WorkingCopy(df), start_date, end_date, regions, products)

total_sales == SumCol(filtered_df.rows, "Total Sales")

total_units == SumCol(filtered_df.rows, "Units Sold")

avg_price == AvgPrice(filtered_df)

prod_sales == ProdSales(filtered_df)

reg_sales == RegSales(filtered_df)

ts == TimeSeries(filtered_df)

csv_bytes == IF render = "error" THEN Unreadable ELSE convert_df_to_csv(filtered_df)

---------------------------------------------------------------------------
(* One script run *)

\* the widgets of lines 101-110 return these values
Widgets(sd, ed, rg, pr) ==
    /\ start_date' = sd
    /\ end_date' = ed
    /\ regions' = rg
    /\ products' = pr

\* the script raised before or at the widgets
Crash == Widgets(0, 0, {}, {})

\* A widget keeps the user's selection across runs while its arguments (bounds,
\* options, default) are the same; otherwise it shows its default.  w is the
\* working copy of this run, w0 that of the run before.
SameDates(w, w0) ==
    /\ ~RenderFails(w0)
    /\ min_date(w) = min_date(w0)
    /\ max_date(w) = max_date(w0)

SameOptions(w, w0, c) == ~RenderFails(w0) /\ Unique(w, c) = Unique(w0, c)

KeptStart(w, w0) == IF SameDates(w, w0) THEN start_date ELSE min_date(w)
KeptEnd(w, w0) == IF SameDates(w, w0) THEN end_date ELSE max_date(w)
KeptRegions(w, w0) == IF SameOptions(w, w0, "Region") THEN regions ELSE Unique(w, "Region")
KeptProducts(w, w0) == IF SameOptions(w, w0, "Product") THEN products ELSE Unique(w, "Product")

\* the rest of the script after the sidebar left newdf in the session
Show(newdf) ==
    LET w == WorkingCopy(newdf)
        w0 == WorkingCopy(df)
    IN  IF RenderFails(w) THEN Crash
        ELSE Widgets(KeptStart(w, w0), KeptEnd(w, w0), KeptRegions(w, w0), KeptProducts(w, w0))

\* the user picks a file in the uploader
Upload(f) ==
    /\ uploaded_file' = <<f>>
    /\ clicked' = "none"
    /\ df' = UploadBranch(<<f>>, df)
    /\ Show(df')

\* the user removes the file from the uploader
ClearUpload ==
    /\ uploaded_file # <<>>
    /\ uploaded_file' = <<>>
    /\ clicked' = "none"
    /\ df' = df
    /\ Show(df')

\* the user clicks "Reset to Sample Data": line 61 follows the upload branch
Reset ==
    /\ clicked' = "reset"
    /\ df' = sample_data(SampleN)
    /\ Show(df')
    /\ UNCHANGED uploaded_file

\* the rows lines 68-75 can build
NewRows ==
    {NewRow(MaxDay, p, r, u, pr) : p \in AppendProducts, r \in AppendRegions,
                                   u \in AppendUnits, pr \in AppendPrices}

\* the user clicks "Add random transaction (simulate)": the run appends to what
\* the upload branch left, and st.rerun() starts the script again with no
\* button clicked, so the upload branch runs once more before anything is shown
AddTransaction ==
    \E row \in NewRows :
        LET before == UploadBranch(uploaded_file, df)
        IN  /\ Len(before.rows) < MaxRows
            /\ clicked' = "add"
            /\ df' = UploadBranch(uploaded_file, Concat(before, row))
            /\ Show(df')
            /\ UNCHANGED uploaded_file

\* the user changes one filter widget: the date range or a multiselect
ChangeFilters ==
    LET newdf == UploadBranch(uploaded_file, df)
        w == WorkingCopy(newdf)
        w0 == WorkingCopy(df)
    IN  /\ clicked' = "none"
        /\ df' = newdf
        /\ ~RenderFails(w)
        /\ \/ \E sd \in Dates, ed \in Dates :
                /\ min_date(w) <= sd
                /\ sd <= ed
                /\ ed <= max_date(w)
                /\ Widgets(sd, ed, KeptRegions(w, w0), KeptProducts(w, w0))
           \/ \E rg \in SUBSET Unique(w, "Region") :
                Widgets(KeptStart(w, w0), KeptEnd(w, w0), rg, KeptProducts(w, w0))
           \/ \E pr \in SUBSET Unique(w, "Product") :
                Widgets(KeptStart(w, w0), KeptEnd(w, w0), KeptRegions(w, w0), pr)
        /\ UNCHANGED uploaded_file

\* lines 32-33 and the first run of the script
Init ==
    /\ df = sample_data(SampleN)
    /\ uploaded_file = <<>>
    /\ clicked = "none"
    /\ start_date = min_date(df)
    /\ end_date = max_date(df)
    /\ regions = Unique(df, "Region")
    /\ products = Unique(df, "Product")

Next ==
    \/ \E f \in UploadFiles : Upload(f)
    \/ ClearUpload
    \/ Reset
    \/ AddTransaction
    \/ ChangeFilters

Spec == Init /\ [][Next]_vars

\* The export is downloaded and picked in the uploader again.
ReUpload ==
    /\ render = "ok"
    /\ uploaded_file # <<>>
    /\ UploadStatus(uploaded_file) = "ok"
    /\ Upload(csv_bytes)

NextRoundTrip ==
    \/ \E f \in UploadFiles : Upload(f)
    \/ ChangeFilters
    \/ ReUpload

\* uploads, filter changes and re-uploads of the export, without reset or append
SpecRoundTrip == Init /\ [][NextRoundTrip]_vars

---------------------------------------------------------------------------
(* Vocabulary of the properties *)

Rows(d) == {d.rows[i] : i \in 1..Len(d.rows)}

\* the sum of column c over rows i..Len(rows)
RECURSIVE SumFrom(_, _, _)
SumFrom(rows, c, i) == IF i > Len(rows) THEN 0 ELSE rows[i][c].n + SumFrom(rows, c, i + 1)

\* the file of the uploader, when the last run took a new one
NewFile == uploaded_file' # uploaded_file /\ uploaded_file' # <<>>

HasRequired(f) == \A c \in {"Date", "Product", "Region", "Units Sold", "Unit Price"} : c \in Range(f.cols)

IsNumber(text) == text \in Numerals

\* units (a count) and price (in tenths) from the text of their cells, the tolerant way
UnitsOfText(text) ==
    IF ~IsNumber(text) THEN 0
    ELSE IF NumeralValue(text) >= 0 THEN NumeralValue(text) \div 10
    ELSE -((-NumeralValue(text)) \div 10)

PriceOfText(text) == IF IsNumber(text) THEN NumeralValue(text) ELSE 0

\* row i of the dataset d is row i of the file f, ingested the tolerant way
TolerantRow(d, f, i) ==
    /\ d.rows[i]["Units Sold"].n = 10 * UnitsOfText(f.rows[i]["Units Sold"])
    /\ d.rows[i]["Unit Price"].n = PriceOfText(f.rows[i]["Unit Price"])
    /\ d.rows[i]["Total Sales"].n = UnitsOfText(f.rows[i]["Units Sold"]) * PriceOfText(f.rows[i]["Unit Price"])

TolerantIngest(d, f) ==
    /\ Len(d.rows) = Len(f.rows)
    /\ \A i \in 1..Len(f.rows) : TolerantRow(d, f, i)

---------------------------------------------------------------------------
(* C1 *)

TotalIsProduct(r) == r["Total Sales"].n * 10 = r["Units Sold"].n * r["Unit Price"].n

\* C1: in every state, every record of the stored dataset and of the filtered
\* view has total_sales = units_sold * unit_price.
C1_TotalSalesIsProduct ==
    /\ \A r \in Rows(df) : TotalIsProduct(r)
    /\ \A r \in Rows(filtered_df) : TotalIsProduct(r)

\* an upload that brought a Total Sales column of its own is in the session and in the view
C1_Witness ==
    /\ uploaded_file # <<>>
    /\ "Total Sales" \in Range(uploaded_file[1].cols)
    /\ df.cols = uploaded_file[1].cols
    /\ Len(df.rows) > 0
    /\ Len(filtered_df.rows) > 0

---------------------------------------------------------------------------
(* C2 *)

InView(r) ==
    /\ start_date <= r["Date"].n
    /\ r["Date"].n <= end_date
    /\ r["Region"] \in regions
    /\ r["Product"] \in products

\* C2: every run yields a view, never an error, and the view is the
\* subsequence of the dataset's records that lie in the date range and whose
\* region and product are selected; an empty dataset yields an empty view.
C2_FilterNeverFails ==
    /\ render = "ok"
    /\ filtered_df.rows = SelectSeq(df.rows, InView)

\* C2, for the runs that reach the filter: the view is that subsequence.
C2_ViewIsSubsequence ==
    render = "ok" => filtered_df.rows = SelectSeq(df.rows, InView)

---------------------------------------------------------------------------
(* C3 *)

\* C3: a run that takes a new file which cannot be read or lacks a required
\* column leaves the stored dataset as it was.
C3_FailedUploadKeepsDataset ==
    [][(NewFile /\ (~uploaded_file'[1].readable \/ ~HasRequired(uploaded_file'[1]))) => df' = df]_vars

\* a file without the Region column is in the uploader and the session still
\* holds an earlier upload
C3_Witness ==
    /\ uploaded_file # <<>>
    /\ uploaded_file[1].readable
    /\ "Region" \notin Range(uploaded_file[1].cols)
    /\ df # sample_data(SampleN)
    /\ clicked = "none"

---------------------------------------------------------------------------
(* C4 *)

\* C4: a run in which no new file is uploaded and no button is clicked leaves
\* the stored dataset unchanged.
C4_RerunKeepsDataset ==
    [][(clicked' = "none" /\ uploaded_file' = uploaded_file) => df' = df]_vars

---------------------------------------------------------------------------
(* C5 *)

AllDatesParse(f) == \A i \in 1..Len(f.rows) : f.rows[i]["Date"] \in {FormatDate(d) : d \in Dates}

---------------------------------------------------------------------------
(* C6 *)

NonNegative(d) == \A r \in Rows(d) : r["Units Sold"].n >= 0 /\ r["Unit Price"].n >= 0

\* units are whole numbers (values are kept in tenths)
WholeUnits(d) == \A r \in Rows(d) : r["Units Sold"].n % 10 = 0

\* C6: in every state, every record has units_sold a whole number >= 0 and
\* unit_price >= 0.
C6_NeverNegative ==
    /\ WholeUnits(df) /\ WholeUnits(filtered_df)
    /\ NonNegative(df) /\ NonNegative(filtered_df)

NegativeCell(text) == IsNumber(text) /\ NumeralValue(text) < 0

\* no Units Sold or Unit Price cell of the file in the uploader is a negative number
NoNegativeCell(held) ==
    \/ held = <<>>
    \/ ~held[1].readable
    \/ ~HasRequired(held[1])
    \/ \A i \in 1..Len(held[1].rows) :
          /\ ~NegativeCell(held[1].rows[i]["Units Sold"])
          /\ ~NegativeCell(held[1].rows[i]["Unit Price"])

\* C6 as amended: units are whole numbers in every record; records start
\* non-negative and stay so through every run whose file holds no negative
\* number; non-numeric and fractional cells never make a record negative.
C6_NegativeOnlyFromNegativeCells ==
    /\ NonNegative(df) /\ WholeUnits(df)
    /\ [][/\ WholeUnits(df')
          /\ (NonNegative(df) /\ NoNegativeCell(uploaded_file')) => NonNegative(df')]_vars

\* a file with a fractional Units Sold cell and no negative number was
\* ingested, the fraction cut off
C6_Witness ==
    /\ uploaded_file # <<>>
    /\ NoNegativeCell(uploaded_file)
    /\ HasRequired(uploaded_file[1])
    /\ Len(df.rows) = Len(uploaded_file[1].rows)
    /\ \E i \in 1..Len(df.rows) :
          /\ uploaded_file[1].rows[i]["Units Sold"] = "2.7"
          /\ df.rows[i]["Units Sold"] = NumV(20)
    /\ NonNegative(df)

---------------------------------------------------------------------------
(* C7 *)

\* the dataset in the session is the one ingested from the file in the uploader
FromIngestion ==
    /\ uploaded_file # <<>>
    /\ uploaded_file[1].readable
    /\ HasRequired(uploaded_file[1])
    /\ AllDatesParse(uploaded_file[1])
    /\ df.cols \in {uploaded_file[1].cols, Append(uploaded_file[1].cols, "Total Sales")}
    /\ TolerantIngest(df, uploaded_file[1])

\* C7: when the export of a view of an ingested dataset is uploaded, the
\* dataset it yields has the view's columns and the view's records, in order,
\* with the same values.
C7_ExportRoundTrips ==
    [][(render = "ok" /\ FromIngestion /\ uploaded_file' = <<csv_bytes>>)
          => (df'.cols = filtered_df.cols /\ df'.rows = filtered_df.rows)]_vars

---------------------------------------------------------------------------
(* C8 *)

\* C8: a run that shows KPIs shows 0, 0 and 0.0 for an empty view, and the sum
\* of total_sales, the sum of units_sold and the mean of unit_price otherwise.
C8_Kpis ==
    render = "ok" =>
        IF Len(filtered_df.rows) = 0
        THEN total_sales = 0 /\ total_units = 0 /\ avg_price = [num |-> 0, den |-> 1]
        ELSE /\ total_sales = SumFrom(filtered_df.rows, "Total Sales", 1)
             /\ total_units = SumFrom(filtered_df.rows, "Units Sold", 1)
             /\ avg_price.num = SumFrom(filtered_df.rows, "Unit Price", 1)
             /\ avg_price.den = Len(filtered_df.rows)

\* the filters leave nothing of a dataset that has records
C8_Witness ==
    /\ render = "ok"
    /\ Len(df.rows) > 0
    /\ Len(filtered_df.rows) = 0
    /\ avg_price = [num |-> 0, den |-> 1]

---------------------------------------------------------------------------
(* C9 *)

Keys(c) == {r[c] : r \in Rows(filtered_df)}

TotalOf(c, key) == SumFrom(SelectSeq(filtered_df.rows, LAMBDA r : r[c] = key), "Total Sales", 1)

\* g lists each key of column c once, with the sum of its records
OncePerKey(g, c) ==
    /\ Len(g) = Cardinality(Keys(c))
    /\ {g[i].key : i \in 1..Len(g)} = Keys(c)
    /\ \A i \in 1..Len(g) : g[i].total = TotalOf(c, g[i].key)

\* the place in the view of the first record of a key
FirstSeen(c, key) ==
    CHOOSE i \in 1..Len(filtered_df.rows) :
        /\ filtered_df.rows[i][c] = key
        /\ \A j \in 1..(i - 1) : filtered_df.rows[j][c] # key

DescendingFirstSeen(g, c) ==
    \A i \in 1..Len(g), j \in 1..Len(g) :
        i < j => \/ g[i].total > g[j].total
                 \/ g[i].total = g[j].total /\ FirstSeen(c, g[i].key) < FirstSeen(c, g[j].key)

KeyBefore(a, b) ==
    IF a.k = "str" /\ b.k = "str"
    THEN \E i \in 1..Len(KeyOrder), j \in 1..Len(KeyOrder) : i < j /\ KeyOrder[i] = a.s /\ KeyOrder[j] = b.s
    ELSE a.n < b.n

DescendingThenKey(g) ==
    \A i \in 1..Len(g), j \in 1..Len(g) :
        i < j => \/ g[i].total > g[j].total
                 \/ g[i].total = g[j].total /\ KeyBefore(g[i].key, g[j].key)

AscendingKey(g) == \A i \in 1..Len(g), j \in 1..Len(g) : i < j => KeyBefore(g[i].key, g[j].key)

---------------------------------------------------------------------------
(* C10 *)

\* the export has one row per record of the view, in order, each cell the
\* spelling of the record's value
RowsOfView(cols) ==
    /\ Len(csv_bytes.rows) = Len(filtered_df.rows)
    /\ \A i \in 1..Len(csv_bytes.rows) :
          /\ DOMAIN csv_bytes.rows[i] = Range(cols)
          /\ csv_bytes.rows[i]["Date"] = FormatDate(filtered_df.rows[i]["Date"].n)
          /\ csv_bytes.rows[i]["Units Sold"] = ToString(filtered_df.rows[i]["Units Sold"].n \div 10)
          /\ NumeralValue(csv_bytes.rows[i]["Unit Price"]) = filtered_df.rows[i]["Unit Price"].n

SixCols == <<"Date", "Product", "Region", "Units Sold", "Unit Price", "Total Sales">>

\* C10: every export has exactly the six columns Date, Product, Region, Units
\* Sold, Unit Price, Total Sales and one row of these six per record of the view.
C10_ExportHasSixColumns ==
    render = "ok" => (csv_bytes.cols = SixCols /\ RowsOfView(SixCols))

\* the uploader holds a file that can be read, with the required columns and dates
Ingestible(held) ==
    /\ held # <<>>
    /\ held[1].readable
    /\ HasRequired(held[1])
    /\ AllDatesParse(held[1])

\* the columns an upload leaves in the session: its own, in its order, and
\* Total Sales at the end when it had none
ColumnsOfUpload(f) ==
    IF \E i \in 1..Len(f.cols) : f.cols[i] = "Total Sales" THEN f.cols ELSE f.cols \o <<"Total Sales">>

\* C10 as amended: every export has the columns of the stored dataset, the six
\* among them, and one row of these columns per record of the view; the stored
\* dataset has the six columns of the sample at the start and after a reset,
\* the columns of the file in the uploader, additional ones included, after
\* every other run that ingests it, and keeps its columns otherwise.
C10_ExportHasDatasetColumns ==
    /\ [](render = "ok" =>
            /\ csv_bytes.cols = df.cols
            /\ Range(SixCols) \subseteq Range(csv_bytes.cols)
            /\ RowsOfView(df.cols))
    /\ df.cols = SixCols
    /\ [][IF clicked' = "reset" THEN df'.cols = SixCols
           ELSE IF Ingestible(uploaded_file') THEN df'.cols = ColumnsOfUpload(uploaded_file'[1])
           ELSE df'.cols = df.cols]_vars

\* an upload with a Notes column is exported with it
C10_Witness ==
    /\ render = "ok"
    /\ uploaded_file # <<>>
    /\ "Notes" \in Range(uploaded_file[1].cols)
    /\ "Notes" \in Range(csv_bytes.cols)
    /\ Len(csv_bytes.rows) > 0
====
